---- MODULE Spec2Model ----
(***************************************************************************)
(* Model of docs/mkdocs/hooks/module_catalog.py: the MkDocs hook that      *)
(* discovers Amplifier module directories, reads their manifest and        *)
(* readme, and substitutes generated fragments for placeholder markers.    *)
(* Python str values are TLA+ strings; Len, \o, SubSeq, Head and Tail act  *)
(* on them character by character.                                         *)
(***************************************************************************)
EXTENDS Integers, Sequences, FiniteSets, TLC

VARIABLES fs, tomli, config, phase, page, module_page

vars == <<fs, tomli, config, phase, page, module_page>>

(***************************************************************************)
(* Bounds of the model.                                                    *)
(***************************************************************************)
\* largest number of children of the base directory
MaxDirs == 2
\* how many times on_page_markdown may be fed its own output
MaxPasses == 2

(***************************************************************************)
(* Python str primitives.                                                  *)
(***************************************************************************)
\* U+0060 (grave accent) cannot be written inside a TLA+ string; the form
\* feed character, which no input of the model contains, stands for it
Grave == "\f"

\* printable ASCII in code point order, starting at code point 32
AsciiTable == " !\"#$%&'()*+,-./0123456789:;<=>?@ABCDEFGHIJKLMNOPQRSTUVWXYZ[\\]^_\fabcdefghijklmnopqrstuvwxyz{|}~"

AsciiChars == {SubSeq(AsciiTable, i, i) : i \in 1..Len(AsciiTable)}

\* ord(c): the code point of a one-character string
Ord == [c \in AsciiChars \cup {"\n"} |->
          IF c = "\n" THEN 10
          ELSE 31 + (CHOOSE i \in 1..Len(AsciiTable) : SubSeq(AsciiTable, i, i) = c)]

IsUpperChar(c) == Ord[c] >= 65 /\ Ord[c] <= 90

IsLowerChar(c) == Ord[c] >= 97 /\ Ord[c] <= 122

CharAt(code) == SubSeq(AsciiTable, code - 31, code - 31)

UpperChar(c) == IF IsLowerChar(c) THEN CharAt(Ord[c] - 32) ELSE c

LowerChar(c) == IF IsUpperChar(c) THEN CharAt(Ord[c] + 32) ELSE c

\* str.upper()
RECURSIVE Upper(_)
Upper(s) == IF s = "" THEN "" ELSE UpperChar(Head(s)) \o Upper(Tail(s))

\* str.title(): a cased character is upper-cased when it follows an uncased
\* one (or starts the string) and lower-cased otherwise
RECURSIVE TitleFrom(_, _)
TitleFrom(s, previous_is_cased) ==
    IF s = "" THEN ""
    ELSE LET c == Head(s)
             cased == IsUpperChar(c) \/ IsLowerChar(c)
         IN  (IF ~cased THEN c
              ELSE IF previous_is_cased THEN LowerChar(c) ELSE UpperChar(c))
             \o TitleFrom(Tail(s), cased)

Title(s) == TitleFrom(s, FALSE)

\* str.startswith(p)
StartsWith(s, p) == Len(s) >= Len(p) /\ SubSeq(s, 1, Len(p)) = p

\* the least element of a set of positions, 0 when it is empty
Least(S) == IF S = {} THEN 0 ELSE CHOOSE i \in S : \A j \in S : i <= j

\* str.find(sub) + 1: the least 1-based index of an occurrence, 0 when none
Find(s, sub) ==
    Least({i \in 1..(Len(s) - Len(sub) + 1) : SubSeq(s, i, i + Len(sub) - 1) = sub})

\* sub in s
Contains(s, sub) == Find(s, sub) # 0

\* str.replace(old, new) for a non-empty old: non-overlapping occurrences,
\* left to right, the inserted text is not rescanned
RECURSIVE Replace(_, _, _)
Replace(s, old, new) ==
    LET i == Find(s, old)
    IN  IF i = 0 THEN s
        ELSE SubSeq(s, 1, i - 1) \o new
             \o Replace(SubSeq(s, i + Len(old), Len(s)), old, new)

\* str.split(sep) for a one-character sep
RECURSIVE Split(_, _)
Split(s, sep) ==
    LET i == Find(s, sep)
    IN  IF i = 0 THEN <<s>>
        ELSE <<SubSeq(s, 1, i - 1)>> \o Split(SubSeq(s, i + 1, Len(s)), sep)

\* sep.join(parts)
RECURSIVE Join(_, _)
Join(sep, parts) ==
    IF parts = <<>> THEN ""
    ELSE IF Len(parts) = 1 THEN parts[1]
    ELSE parts[1] \o sep \o Join(sep, Tail(parts))

\* a < b on str: code point lexicographic order
RECURSIVE StrLess(_, _)
StrLess(a, b) ==
    IF b = "" THEN FALSE
    ELSE IF a = "" THEN TRUE
    ELSE IF Head(a) = Head(b) THEN StrLess(Tail(a), Tail(b))
    ELSE Ord[Head(a)] < Ord[Head(b)]

(***************************************************************************)
(* Module type mappings.                                                   *)
(***************************************************************************)
\* the insertion order of the MODULE_TYPES dict, which is its iteration order
MODULE_TYPE_KEYS == <<"provider", "tool", "hooks", "loop", "context">>

MODULE_TYPES ==
    [provider |-> [prefix |-> "amplifier-module-provider-",
                   docs_path |-> "modules/providers",
                   display_name |-> "Providers",
                   description |-> "LLM backend integrations"],
     tool     |-> [prefix |-> "amplifier-module-tool-",
                   docs_path |-> "modules/tools",
                   display_name |-> "Tools",
                   description |-> "Agent capabilities"],
     hooks    |-> [prefix |-> "amplifier-module-hooks-",
                   docs_path |-> "modules/hooks",
                   display_name |-> "Hooks",
                   description |-> "Observability and control"],
     loop     |-> [prefix |-> "amplifier-module-loop-",
                   docs_path |-> "modules/orchestrators",
                   display_name |-> "Orchestrators",
                   description |-> "Execution loop strategies"],
     context  |-> [prefix |-> "amplifier-module-context-",
                   docs_path |-> "modules/contexts",
                   display_name |-> "Contexts",
                   description |-> "Memory management"]]

\* the keys of a dict over module types, in iteration order
Keys(d) == SelectSeq(MODULE_TYPE_KEYS, LAMBDA k : k \in DOMAIN d)

(***************************************************************************)
(* The filesystem the hook reads.  A child of the base directory is a      *)
(* record: its name, whether it is a directory, its pyproject.toml and its *)
(* README.md.  manifest.kind is "absent" (no file), "ok", "invalid"        *)
(* (tomli.load raises) or "bad_entry_points" (the project table loads but  *)
(* its entry-points value has no .get, so line 87 raises).  readme.kind is *)
(* "absent", "ok" or "unreadable" (read_text raises).                      *)
(***************************************************************************)
Manifest(kind, description, version, entry_points) ==
    [kind |-> kind, description |-> description, version |-> version,
     entry_points |-> entry_points]

NoManifest == Manifest("absent", "", "", <<>>)

Readme(kind, text) == [kind |-> kind, text |-> text]

NoReadme == Readme("absent", "")

Child(name, is_dir, manifest, readme) ==
    [name |-> name, is_dir |-> is_dir, manifest |-> manifest, readme |-> readme]

Desc80 == "0123456789abcdefghij0123456789ABCDEFGHIJ0123456789klmnopqrst0123456789KLMNOPQRST"

Desc81 == Desc80 \o "u"

Desc95 == Desc80 \o "-fifteen-more.."

\* the children a base directory of the model is populated from
DirEntries ==
    { Child("amplifier-module-tool-chat", TRUE,
            Manifest("ok", "Chat tool", "1.0.0", <<"chat-tool">>),
            Readme("ok", "# My Tool\nBody text")),
      Child("amplifier-module-tool-Zip", TRUE,
            Manifest("ok", Desc95, "0.1.0", <<"zip", "unzip">>),
            Readme("ok", "Intro\n# Zip\nUsage\n# Notes\n")),
      Child("amplifier-module-tool-bash", TRUE,
            Manifest("ok", Desc80, "0.2.0", <<"tool-bash">>),
            Readme("ok", "## Bash\n#no space\nNo top-level heading")),
      Child("amplifier-module-tool-", TRUE,
            Manifest("ok", "Bare prefix", "", <<>>),
            NoReadme),
      Child("amplifier-module-provider-open-ai", TRUE,
            Manifest("ok", "Wraps <!-- MODULE_CATALOG -->", "2.0", <<"provider-openai">>),
            Readme("ok", "No heading")),
      Child("amplifier-module-hooks-logging", TRUE,
            NoManifest,
            Readme("ok", "# Logging")),
      Child("amplifier-module-loop-basic", TRUE,
            Manifest("invalid", "Basic loop", "0.9", <<"loop-basic">>),
            Readme("ok", "# Only heading")),
      Child("amplifier-module-context-simple", TRUE,
            Manifest("bad_entry_points", Desc81, "0.3", <<>>),
            Readme("unreadable", "# Simple\nbinary")),
      Child("amplifier-module-foo", TRUE,
            Manifest("ok", "Unknown kind", "0.0.1", <<"foo">>),
            NoReadme),
      Child("amplifier-module-tool-notes.txt", FALSE, NoManifest, NoReadme) }

\* the configured docs_dir, and the directory two levels above it
DocsDir == "/work/amplifier-dev/amplifier-docs/docs"

DevDir == "/work/amplifier-dev"

\* the sets of children a directory can hold: names are unique
ChildSets ==
    {S \in SUBSET DirEntries :
        /\ Cardinality(S) <= MaxDirs
        /\ \A a, b \in S : a.name = b.name => a = b}

\* the orders in which one iterdir() call can yield the children
Orders(S) ==
    {o \in [1..Cardinality(S) -> S] : \A i, j \in 1..Cardinality(S) : o[i] = o[j] => i = j}

\* PurePath.parent of an absolute path with at least two components
Parent(p) ==
    LET slashes == {i \in 1..Len(p) : SubSeq(p, i, i) = "/"}
        last == CHOOSE i \in slashes : \A j \in slashes : j <= i
    IN  SubSeq(p, 1, last - 1)

(***************************************************************************)
(* get_module_info: None is the empty sequence, a dict a one-element one.  *)
(***************************************************************************)
\* variant: a manifest or readme that cannot be read makes the directory
\* not a module
get_module_info_fatal(module_path, base_path) ==
    LET m == module_path.manifest
        r == module_path.readme
    IN  IF m.kind # "ok" \/ r.kind = "unreadable" THEN <<>>
        ELSE <<[name |-> module_path.name,
                path |-> base_path \o "/" \o module_path.name,
                description |-> IF tomli THEN m.description ELSE "",
                version |-> IF tomli THEN m.version ELSE "",
                entry_point |-> IF tomli /\ m.entry_points # <<>>
                                THEN m.entry_points[1] ELSE "",
                readme_content |-> IF r.kind = "ok" THEN r.text ELSE ""]>>

\* variant: the manifest is not required
get_module_info_no_manifest_check(module_path, base_path) ==
    LET m == module_path.manifest
        r == module_path.readme
        loaded == tomli /\ m.kind \in {"ok", "bad_entry_points"}
    IN  <<[name |-> module_path.name,
           path |-> base_path \o "/" \o module_path.name,
           description |-> IF loaded THEN m.description ELSE "",
           version |-> IF loaded THEN m.version ELSE "",
           entry_point |-> IF tomli /\ m.kind = "ok" /\ m.entry_points # <<>>
                           THEN m.entry_points[1] ELSE "",
           readme_content |-> IF r.kind = "ok" THEN r.text ELSE ""]>>

get_module_info(module_path, base_path) ==
    LET m == module_path.manifest
        r == module_path.readme
        \* tomli.load returned and project.get worked: lines 80-83 ran
        loaded == tomli /\ m.kind \in {"ok", "bad_entry_points"}
        \* lines 86-89 ran without raising
        entry_points_read == tomli /\ m.kind = "ok"
    IN  IF m.kind = "absent" THEN <<>>
        ELSE <<[name |-> module_path.name,
                path |-> base_path \o "/" \o module_path.name,
                description |-> IF loaded THEN m.description ELSE "",
                version |-> IF loaded THEN m.version ELSE "",
                entry_point |-> IF entry_points_read /\ m.entry_points # <<>>
                                THEN m.entry_points[1] ELSE "",
                readme_content |-> IF r.kind = "ok" THEN r.text ELSE ""]>>

(***************************************************************************)
(* discover_modules                                                        *)
(***************************************************************************)
\* {key: [] for key in MODULE_TYPES}
modules_by_type_init == [key \in DOMAIN MODULE_TYPES |-> <<>>]

\* variant: the generic "amplifier-module-" marker is stripped instead
short_name_generic(name, prefix) ==
    SubSeq(name, Len("amplifier-module-") + 1, Len(name))

\* path.name[len(prefix):]
short_name(name, prefix) == SubSeq(name, Len(prefix) + 1, Len(name))

\* info["short_name"] = ...
with_short_name(info, value) ==
    [name |-> info.name, path |-> info.path, description |-> info.description,
     version |-> info.version, entry_point |-> info.entry_point,
     readme_content |-> info.readme_content, short_name |-> value]

\* variant: the list is left in listing order
sort_by_short_name_unsorted(list) == list

\* list.sort(key=lambda x: x["short_name"]): stable, compares keys with <
RECURSIVE sort_by_short_name(_)
sort_by_short_name(list) ==
    IF list = <<>> THEN <<>>
    ELSE LET rest == sort_by_short_name(SubSeq(list, 1, Len(list) - 1))
             x == list[Len(list)]
             k == Cardinality({i \in 1..Len(rest) :
                                  ~StrLess(x.short_name, rest[i].short_name)})
         IN  SubSeq(rest, 1, k) \o <<x>> \o SubSeq(rest, k + 1, Len(rest))

\* the inner loop of discover_modules over one iterdir() listing
RECURSIVE scan(_, _, _)
scan(paths, prefix, base_path) ==
    IF paths = <<>> THEN <<>>
    ELSE LET path == Head(paths)
             info == IF path.is_dir /\ StartsWith(path.name, prefix)
                     THEN get_module_info(path, base_path) ELSE <<>>
         IN  (IF info # <<>>
              THEN <<with_short_name(info[1], short_name(path.name, prefix))>>
              ELSE <<>>)
             \o scan(Tail(paths), prefix, base_path)

\* the body of the outer loop for one category, paths being what
\* base_path.iterdir() yields in that iteration
category_modules(module_type, paths, base_path) ==
    sort_by_short_name(
        modules_by_type_init[module_type]
        \o scan(paths, MODULE_TYPES[module_type].prefix, base_path.path))

\* every mapping discover_modules can return: each category is scanned with
\* its own iterdir() call, which may yield the children in any order
discover_modules(base_path) ==
    LET outcomes(module_type) ==
            {category_modules(module_type, paths, base_path) :
                paths \in Orders(base_path.children)}
    IN  {modules \in [DOMAIN modules_by_type_init ->
                        UNION {outcomes(t) : t \in DOMAIN modules_by_type_init}] :
            \A t \in DOMAIN modules_by_type_init : modules[t] \in outcomes(t)}

(***************************************************************************)
(* on_config                                                               *)
(***************************************************************************)
\* variant of line 209 that leaves one category out
standalone_modules_missing_key ==
    [key \in (DOMAIN MODULE_TYPES) \ {"loop"} |-> <<>>]

\* {key: [] for key in MODULE_TYPES} of the standalone branch
standalone_modules == [key \in DOMAIN MODULE_TYPES |-> <<>>]

\* lines 196-199: "True" or "False"; any() does not depend on the order of
\* the listing.  iterdir() on a missing path would raise FileNotFoundError.
has_modules(base_path) ==
    IF base_path.exists
    THEN IF \E p \in base_path.children :
                p.is_dir /\ StartsWith(p.name, "amplifier-module-")
         THEN "True" ELSE "False"
    ELSE "False"

\* Path(config.get("docs_dir", "docs")).parent.parent, looked up in fs
base_path_of(cfg) ==
    LET p == Parent(Parent(cfg.docs_dir))
    IN  IF p = fs.path THEN fs ELSE [path |-> p, exists |-> FALSE, children |-> {}]

\* the values on_config can store in config["amplifier_modules"]
configured_modules(base_path) ==
    IF has_modules(base_path) = "True"
    THEN discover_modules(base_path)
    ELSE {standalone_modules}

(***************************************************************************)
(* generate_module_page                                                    *)
(***************************************************************************)
\* variant: every top-level heading line is dropped
RECURSIVE filter_lines_all_headings(_, _)
filter_lines_all_headings(lines, skip_first_heading) ==
    IF lines = <<>> THEN <<>>
    ELSE IF StartsWith(Head(lines), "# ")
         THEN filter_lines_all_headings(Tail(lines), TRUE)
         ELSE <<Head(lines)>> \o filter_lines_all_headings(Tail(lines), skip_first_heading)

\* the loop of lines 174-178, skip_first_heading being its flag
RECURSIVE filter_lines(_, _)
filter_lines(lines, skip_first_heading) ==
    IF lines = <<>> THEN <<>>
    ELSE IF StartsWith(Head(lines), "# ") /\ ~skip_first_heading
         THEN filter_lines(Tail(lines), TRUE)
         ELSE <<Head(lines)>> \o filter_lines(Tail(lines), skip_first_heading)

\* lines 169-181: what is appended to the page for a readme
readme_section(readme) ==
    IF readme = "" THEN ""
    ELSE LET filtered_lines == filter_lines(Split(readme, "\n"), FALSE)
         IN  IF filtered_lines # <<>> THEN Join("\n", filtered_lines) ELSE ""

\* lines 135-166: the page up to and including the rule before the readme
page_header(module_info, module_type) ==
    LET cfg == MODULE_TYPES[module_type]
        name == module_info.short_name
        full_name == module_info.name
        description == module_info.description
        entry_point == module_info.entry_point
    IN  "# " \o Title(Replace(name, "-", " ")) \o "\n"
        \o "\n"
        \o description \o "\n"
        \o "\n"
        \o "## Overview\n"
        \o "\n"
        \o "| Property | Value |\n"
        \o "|----------|-------|\n"
        \o "| **Module ID** | " \o Grave \o entry_point \o Grave \o " |\n"
        \o "| **Package** | " \o Grave \o full_name \o Grave \o " |\n"
        \o "| **Type** | " \o cfg.display_name \o " |\n"
        \o "| **Repository** | [github.com/microsoft/" \o full_name \o "](https://github.com/microsoft/" \o full_name \o ") |\n"
        \o "\n"
        \o "## Installation\n"
        \o "\n"
        \o "This module is installed automatically when referenced in a profile or mount plan.\n"
        \o "\n"
        \o Grave \o Grave \o Grave \o "yaml\n"
        \o module_type \o "s:\n"
        \o "  - module: " \o entry_point \o "\n"
        \o "    source: git+https://github.com/microsoft/" \o full_name \o "@main\n"
        \o Grave \o Grave \o Grave \o "\n"
        \o "\n"
        \o "## Documentation\n"
        \o "\n"
        \o "The full documentation for this module is maintained in its repository:\n"
        \o "\n"
        \o "**[View Full Documentation →](https://github.com/microsoft/" \o full_name \o ")**\n"
        \o "\n"
        \o "---\n"
        \o "\n"

generate_module_page(module_info, module_type) ==
    page_header(module_info, module_type) \o readme_section(module_info.readme_content)

(***************************************************************************)
(* generate_module_catalog and generate_module_list                        *)
(***************************************************************************)
\* variant: a description of exactly 80 characters is truncated too
catalog_desc_inclusive(description) ==
    IF Len(description) >= 80 THEN SubSeq(description, 1, 80) \o "..." ELSE description

\* line 262
catalog_desc(description) ==
    IF Len(description) > 80 THEN SubSeq(description, 1, 80) \o "..." ELSE description

\* lines 261-264: one table row
catalog_row(module, cfg) ==
    LET name == module.short_name
        desc == catalog_desc(module.description)
        link == "[" \o name \o "](" \o cfg.docs_path \o "/"
                \o Replace(name, "-", "_") \o ".md)"
    IN  "| " \o link \o " | " \o desc \o " |\n"

RECURSIVE catalog_rows(_, _)
catalog_rows(module_list, cfg) ==
    IF module_list = <<>> THEN ""
    ELSE catalog_row(Head(module_list), cfg) \o catalog_rows(Tail(module_list), cfg)

\* lines 251-266: the section of one category
catalog_section(module_type, module_list) ==
    IF module_list = <<>> THEN ""
    ELSE LET cfg == MODULE_TYPES[module_type]
         IN  "\n### " \o cfg.display_name \o "\n\n"
             \o cfg.description \o "\n\n"
             \o "| Module | Description |\n"
             \o "|--------|-------------|\n"
             \o catalog_rows(module_list, cfg)
             \o "\n"

RECURSIVE catalog_sections(_, _)
catalog_sections(keys, modules) ==
    IF keys = <<>> THEN ""
    ELSE catalog_section(Head(keys), modules[Head(keys)])
         \o catalog_sections(Tail(keys), modules)

generate_module_catalog(modules) == catalog_sections(Keys(modules), modules)

\* lines 278-290: one card
module_card(module) ==
    LET name == module.short_name
        desc == module.description
        entry_point == module.entry_point
    IN  "\n"
        \o "<div class=\"module-card\">\n"
        \o "<div class=\"content\">\n"
        \o "<h4><a href=\"" \o Replace(name, "-", "_") \o ".md\">"
             \o Title(Replace(name, "-", " ")) \o "</a></h4>\n"
        \o "<p>" \o desc \o "</p>\n"
        \o "<code>" \o entry_point \o "</code>\n"
        \o "</div>\n"
        \o "</div>\n"

RECURSIVE module_cards(_)
module_cards(modules) ==
    IF modules = <<>> THEN ""
    ELSE module_card(Head(modules)) \o module_cards(Tail(modules))

generate_module_list(modules, module_type) ==
    IF modules = <<>> THEN "*No modules found.*" ELSE module_cards(modules)

(***************************************************************************)
(* on_page_markdown                                                        *)
(***************************************************************************)
\* variant: the category identifier is used as written
placeholder_as_written(module_type) == "<!-- MODULE_LIST_" \o module_type \o " -->"

\* f"<!-- MODULE_LIST_{module_type.upper()} -->"
placeholder(module_type) == "<!-- MODULE_LIST_" \o Upper(module_type) \o " -->"

\* lines 232-234
replace_catalog(markdown, modules) ==
    IF Contains(markdown, "<!-- MODULE_CATALOG -->")
    THEN Replace(markdown, "<!-- MODULE_CATALOG -->", generate_module_catalog(modules))
    ELSE markdown

\* lines 237-241, for the categories in keys
RECURSIVE replace_lists(_, _, _)
replace_lists(markdown, keys, modules) ==
    IF keys = <<>> THEN markdown
    ELSE LET module_type == Head(keys)
             module_list == generate_module_list(
                                IF module_type \in DOMAIN modules
                                THEN modules[module_type] ELSE <<>>, module_type)
         IN  replace_lists(
                 IF Contains(markdown, placeholder(module_type))
                 THEN Replace(markdown, placeholder(module_type), module_list)
                 ELSE markdown,
                 Tail(keys), modules)

\* the return value of on_page_markdown(markdown, page, cfg, files)
on_page_markdown(markdown, cfg) ==
    LET modules == IF "amplifier_modules" \in DOMAIN cfg
                   THEN cfg.amplifier_modules ELSE <<>>
    IN  replace_lists(replace_catalog(markdown, modules), MODULE_TYPE_KEYS, modules)

(***************************************************************************)
(* The build: the host calls on_config, then on_files, then                *)
(* on_page_markdown once per page.                                         *)
(***************************************************************************)
\* the markdown sources of the pages of the site
Pages ==
    { "# Title\n\nNo markers here.\n",
      "<!-- MODULE_CATALOG -->",
      "# Tools\n<!-- MODULE_LIST_TOOL -->\nmid\n<!-- MODULE_LIST_TOOL -->\n",
      "<!-- MODULE_LIST_PROVIDER -->",
      "<!-- MODULE_CATALOG -->\n<!-- MODULE_LIST_HOOKS --><!-- MODULE_LIST_LOOP --><!-- MODULE_LIST_CONTEXT -->",
      "<!-- MODULE_LIST_FOO -->\n<!-- MODULE_LIST_tool -->\n<!-- module_catalog -->\n<!--MODULE_CATALOG-->\n<!-- MODULE_LIST_TOOLS --><!-- MODULE_CATALOG --<!-- MODULE_LIST_LOOP-->",
      "<!-- MODULE_LIST_FOO --><!-- MODULE_LIST_TOOL --><!-- MODULE_LIST_ORCHESTRATORS -->" }

NoPage == [markdown |-> "", result |-> "", passes |-> 0]

NoModulePage == [module_type |-> "", index |-> 0, content |-> ""]

Init ==
    /\ fs \in {[path |-> DevDir, exists |-> TRUE, children |-> S] : S \in ChildSets}
              \cup {[path |-> DevDir, exists |-> FALSE, children |-> {}]}
    /\ tomli \in BOOLEAN
    /\ config = [docs_dir |-> DocsDir]
    /\ phase = "start"
    /\ page = NoPage
    /\ module_page = NoModulePage

\* on_config(config): an exception of the scan propagates and aborts the build
on_config ==
    /\ phase = "start"
    /\ LET base_path == base_path_of(config)
       IN  IF has_modules(base_path) \notin {"True", "False"}
           THEN /\ phase' = "aborted"
                /\ UNCHANGED config
           ELSE /\ \E modules \in configured_modules(base_path) :
                      config' = [docs_dir |-> config.docs_dir,
                                 amplifier_modules |-> modules]
                /\ phase' = "configured"
    /\ UNCHANGED <<fs, tomli, page, module_page>>

\* on_files(files, config): returns files
on_files ==
    /\ phase = "configured"
    /\ phase' = "files"
    /\ UNCHANGED <<fs, tomli, config, page, module_page>>

\* the host renders a page: on_page_markdown applied to a source page.  The
\* result depends on the page and on config only, so a behaviour follows one
\* page; every page is rendered in some behaviour.
render_page ==
    /\ phase = "files"
    /\ page.passes = 0
    /\ \E markdown \in Pages :
          page' = [markdown |-> markdown,
                   result |-> on_page_markdown(markdown, config),
                   passes |-> 1]
    /\ UNCHANGED <<fs, tomli, config, phase, module_page>>

\* on_page_markdown applied to the markdown it returned
render_again ==
    /\ phase = "files"
    /\ page.passes >= 1
    /\ page.passes < MaxPasses
    /\ page' = [markdown |-> page.result,
                result |-> on_page_markdown(page.result, config),
                passes |-> page.passes + 1]
    /\ UNCHANGED <<fs, tomli, config, phase, module_page>>

\* generate_module_page applied to a discovered module; no hook calls it, so
\* it is not a step of the build (Next) but of SpecModulePage
render_module_page ==
    /\ phase = "configured"
    /\ \E module_type \in DOMAIN config.amplifier_modules :
          \E index \in 1..Len(config.amplifier_modules[module_type]) :
              module_page' =
                  [module_type |-> module_type,
                   index |-> index,
                   content |-> generate_module_page(
                                   config.amplifier_modules[module_type][index],
                                   module_type)]
    /\ UNCHANGED <<fs, tomli, config, phase, page>>

Next ==
    \/ on_config
    \/ on_files
    \/ render_page
    \/ render_again

Spec == Init /\ [][Next]_vars

\* discovery alone: on_config applied to every filesystem of Init
NextDiscovery == on_config

SpecDiscovery == Init /\ [][NextDiscovery]_vars

NextModulePage ==
    \/ on_config
    \/ render_module_page

SpecModulePage == Init /\ [][NextModulePage]_vars

(***************************************************************************)
(* Properties.                                                             *)
(***************************************************************************)
Configured == "amplifier_modules" \in DOMAIN config

Categories == {"provider", "tool", "hooks", "loop", "context"}

\* the records of every category of a mapping, as a set of <<category, index>>
Slots(modules) ==
    UNION {{<<t, i>> : i \in 1..Len(modules[t])} : t \in DOMAIN modules}

\* a child that discovery has to turn into a record of category t
IsModuleOf(c, t) ==
    c.is_dir /\ StartsWith(c.name, MODULE_TYPES[t].prefix) /\ c.manifest.kind # "absent"

HasGenericChild == \E c \in fs.children : c.is_dir /\ StartsWith(c.name, "amplifier-module-")

\* C1: the mapping discover_modules returns and the mapping on_config stores
\* have exactly the five categories as keys; a category with no surviving
\* module maps to the empty sequence; a missing base path or one without an
\* "amplifier-module-" child directory gives five empty sequences, no error.
C1_FiveCategories ==
    /\ Configured =>
          /\ DOMAIN config.amplifier_modules = Categories
          /\ \A t \in Categories :
                (~\E c \in fs.children : IsModuleOf(c, t)) =>
                    config.amplifier_modules[t] = <<>>
    /\ (phase # "start" /\ (~fs.exists \/ ~HasGenericChild)) =>
          /\ phase # "aborted"
          /\ Configured
          /\ \A t \in Categories : config.amplifier_modules[t] = <<>>
    /\ (phase = "configured" /\ fs.exists) =>
          \A modules \in discover_modules(fs) :
              /\ DOMAIN modules = Categories
              /\ \A t \in Categories :
                    (~\E c \in fs.children : IsModuleOf(c, t)) => modules[t] = <<>>

C1_Witness ==
    /\ phase = "configured"
    /\ fs.exists
    /\ fs.children # {}
    /\ ~HasGenericChild
    /\ \A t \in Categories : config.amplifier_modules[t] = <<>>

\* C2: a child without pyproject.toml is in no category's sequence even when
\* its name starts with a category prefix; every child directory with a
\* category prefix and a manifest is in the result.
C2_ManifestDecidesMembership ==
    Configured =>
        \A c \in fs.children :
            /\ c.manifest.kind = "absent" =>
                  \A s \in Slots(config.amplifier_modules) :
                      config.amplifier_modules[s[1]][s[2]].name # c.name
            /\ (\E t \in Categories : IsModuleOf(c, t)) =>
                  \E s \in Slots(config.amplifier_modules) :
                      config.amplifier_modules[s[1]][s[2]].name = c.name

C2_Witness ==
    /\ Configured
    /\ \E c \in fs.children :
          /\ c.is_dir
          /\ c.manifest.kind = "absent"
          /\ \E t \in Categories : StartsWith(c.name, MODULE_TYPES[t].prefix)
    /\ \E c \in fs.children : \E t \in Categories :
          /\ IsModuleOf(c, t)
          /\ Len(config.amplifier_modules[t]) = 1

\* C3: every record is in exactly one category, the one whose prefix its
\* directory name starts with, once; its short_name is the directory name
\* with that prefix removed.
C3_ExactlyOneCategory ==
    Configured =>
        \A s \in Slots(config.amplifier_modules) :
            LET r == config.amplifier_modules[s[1]][s[2]]
            IN  /\ MODULE_TYPES[s[1]].prefix \o r.short_name = r.name
                /\ \A s2 \in Slots(config.amplifier_modules) :
                      config.amplifier_modules[s2[1]][s2[2]].name = r.name => s2 = s
                /\ \E c \in fs.children : c.name = r.name /\ c.is_dir

C3_Witness ==
    /\ Configured
    /\ \E t1, t2 \in Categories :
          /\ t1 # t2
          /\ config.amplifier_modules[t1] # <<>>
          /\ config.amplifier_modules[t2] # <<>>
          /\ config.amplifier_modules[t1][1].short_name = "chat"

\* C4: the short_name of every record is non-empty.
C4_ShortNameNonEmpty ==
    Configured =>
        \A s \in Slots(config.amplifier_modules) :
            config.amplifier_modules[s[1]][s[2]].short_name # ""

\* C5: every category's sequence is sorted by short_name, ascending, in
\* case-sensitive (code point) lexicographic order, whatever the listing order.
C5_SortedByShortName ==
    Configured =>
        \A t \in DOMAIN config.amplifier_modules :
            \A i, j \in 1..Len(config.amplifier_modules[t]) :
                i < j => StrLess(config.amplifier_modules[t][i].short_name,
                                 config.amplifier_modules[t][j].short_name)

C5_Witness ==
    /\ Configured
    /\ Len(config.amplifier_modules["tool"]) >= 2
    /\ config.amplifier_modules["tool"][1].short_name = "Zip"
    /\ config.amplifier_modules["tool"][2].short_name \in {"bash", "chat"}

\* a child whose manifest cannot be parsed or whose readme cannot be read
Failing(c) ==
    /\ \E t \in Categories : IsModuleOf(c, t)
    /\ c.manifest.kind \in {"invalid", "bad_entry_points"} \/ c.readme.kind = "unreadable"

\* the same child with a manifest that parses and a readme that reads
Repaired(c) ==
    Child(c.name, c.is_dir,
          Manifest("ok", c.manifest.description, c.manifest.version, c.manifest.entry_points),
          Readme(IF c.readme.kind = "unreadable" THEN "ok" ELSE c.readme.kind, c.readme.text))

Others(list, name) == SelectSeq(list, LAMBDA r : r.name # name)

\* C6: a manifest-parse or readme-read failure of one directory is not
\* fatal: discovery returns, the directory has a record with the unread
\* fields empty, and every other directory's record is what it is without
\* the failure.
C6_FailuresAreNotFatal ==
    phase = "configured" =>
        \A c \in fs.children :
            Failing(c) =>
                /\ \E s \in Slots(config.amplifier_modules) :
                      LET r == config.amplifier_modules[s[1]][s[2]]
                      IN  /\ r.name = c.name
                          /\ c.manifest.kind = "invalid" =>
                                r.description = "" /\ r.version = ""
                          /\ c.manifest.kind \in {"invalid", "bad_entry_points"} =>
                                r.entry_point = ""
                          /\ c.readme.kind = "unreadable" => r.readme_content = ""
                /\ \A healthy \in discover_modules(
                                     [path |-> fs.path, exists |-> TRUE,
                                      children |-> (fs.children \ {c}) \cup {Repaired(c)}]) :
                      \A t \in Categories :
                          Others(config.amplifier_modules[t], c.name)
                              = Others(healthy[t], c.name)

C6_Witness ==
    /\ phase = "configured"
    /\ tomli
    /\ \E c, d \in fs.children :
          /\ c # d
          /\ Failing(c)
          /\ c.manifest.kind = "invalid"
          /\ ~Failing(d)
          /\ \E s \in Slots(config.amplifier_modules) :
                /\ config.amplifier_modules[s[1]][s[2]].name = d.name
                /\ config.amplifier_modules[s[1]][s[2]].description # ""

\* the number of non-overlapping occurrences of sub in s
RECURSIVE Count(_, _)
Count(s, sub) ==
    LET i == Find(s, sub)
    IN  IF i = 0 THEN 0 ELSE 1 + Count(SubSeq(s, i + Len(sub), Len(s)), sub)

RecognizedMarkers ==
    {"<!-- MODULE_CATALOG -->", "<!-- MODULE_LIST_PROVIDER -->",
     "<!-- MODULE_LIST_TOOL -->", "<!-- MODULE_LIST_HOOKS -->",
     "<!-- MODULE_LIST_LOOP -->", "<!-- MODULE_LIST_CONTEXT -->"}

UnrecognizedMarkers ==
    {"<!-- MODULE_LIST_FOO -->", "<!-- MODULE_LIST_tool -->", "<!-- module_catalog -->",
     "<!--MODULE_CATALOG-->", "<!-- MODULE_LIST_TOOLS -->",
     "<!-- MODULE_LIST_ORCHESTRATORS -->"}

\* C7: a page without any of the six recognized markers is returned
\* unchanged, whatever the stored mapping; a marker that is not one of the
\* six is still in the output.
C7_UnmarkedPageUnchanged ==
    page.passes >= 1 =>
        /\ (\A marker \in RecognizedMarkers : ~Contains(page.markdown, marker)) =>
              page.result = page.markdown
        /\ \A marker \in UnrecognizedMarkers :
              Count(page.result, marker) >= Count(page.markdown, marker)

C7_Witness ==
    /\ page.passes = 1
    /\ Contains(page.markdown, "<!-- MODULE_LIST_tool -->")
    /\ \A marker \in RecognizedMarkers : ~Contains(page.markdown, marker)
    /\ config.amplifier_modules["tool"] # <<>>
    /\ page.result = page.markdown

\* C8: in the catalog a description longer than 80 characters is shown as
\* its first 80 characters followed by "...", one of 80 or fewer in full.
C8_DescriptionTruncatedAt80 ==
    Configured =>
        \A s \in Slots(config.amplifier_modules) :
            LET module == config.amplifier_modules[s[1]][s[2]]
                d == module.description
                shown == IF Len(d) <= 80 THEN d ELSE SubSeq(d, 1, 80) \o "..."
            IN  Contains(generate_module_catalog(config.amplifier_modules),
                         "| [" \o module.short_name \o "](" \o MODULE_TYPES[s[1]].docs_path
                         \o "/" \o Replace(module.short_name, "-", "_") \o ".md) | "
                         \o shown \o " |\n")

C8_Witness ==
    /\ page.passes = 1
    /\ page.markdown = "<!-- MODULE_CATALOG -->"
    /\ Contains(page.result, " | " \o Desc80 \o "... |\n")
    /\ \E s \in Slots(config.amplifier_modules) :
          Len(config.amplifier_modules[s[1]][s[2]].description) = 95
    /\ \E s \in Slots(config.amplifier_modules) :
          Len(config.amplifier_modules[s[1]][s[2]].description) = 80
    /\ Contains(generate_module_catalog(config.amplifier_modules),
                " | " \o Desc80 \o "... |\n")
    /\ Contains(generate_module_catalog(config.amplifier_modules),
                " | " \o Desc80 \o " |\n")

\* the sequence without its k-th element
Without(seq, k) == SubSeq(seq, 1, k - 1) \o SubSeq(seq, k + 1, Len(seq))

\* C9: for a non-empty readme the page ends with the readme minus exactly
\* one line, the first that begins with "# "; all other lines are kept in
\* order, and a readme without such a line is appended whole.
C9_FirstHeadingLineRemoved ==
    module_page.index # 0 =>
        LET module == config.amplifier_modules[module_page.module_type][module_page.index]
            readme == module.readme_content
            lines == Split(readme, "\n")
            headings == {i \in 1..Len(lines) :
                            Len(lines[i]) >= 2 /\ SubSeq(lines[i], 1, 2) = "# "}
            first == CHOOSE i \in headings : \A j \in headings : i <= j
            kept == IF headings = {} THEN lines ELSE Without(lines, first)
        IN  readme # "" =>
                module_page.content
                    = page_header(module, module_page.module_type) \o Join("\n", kept)

C9_Witness ==
    /\ module_page.index # 0
    /\ config.amplifier_modules[module_page.module_type][module_page.index].readme_content
          = "Intro\n# Zip\nUsage\n# Notes\n"
    /\ Contains(module_page.content, "---\n\nIntro\nUsage\n# Notes\n")

\* C10: on_page_markdown applied to its own output returns that output.
C10_Idempotent ==
    page.passes >= 1 => on_page_markdown(page.result, config) = page.result

====
